---- MODULE Spec2Model ----
(***************************************************************************)
(* Model of bevy_mod_index's Index system parameter (src/src/index.rs):    *)
(* an IndexStorage (a unique multi-map from value to entity plus the tick  *)
(* of the last refresh) that is brought up to date from the host's         *)
(* components on lookup.                                                   *)
(*                                                                         *)
(* Ticks are u32.  A u32 is written here in two's complement: the number   *)
(* n below 2^31 is n, the number n from 2^31 up is n - 2^32 (so 2^32 - 1   *)
(* is -1).  The operators of the section "u32" compute on that form what   *)
(* Rust computes on u32, for every pair of u32 values.                     *)
(***************************************************************************)
EXTENDS Integers, FiniteSets, Sequences, TLC

\* ------------------------------------------------------------------ bounds

\* Entities the host may spawn.
NumEntities == 2

\* The host hands out the ticks 1 .. MaxTick, one per system run.
MaxTick == 3

Entities == 1..NumEntities

\* Values of the test component Number (10, 20 as in add_some_numbers).
Numbers == {10, 20}

\* Values a lookup asks for: the numbers, and 40, which no component has.
Values == Numbers \cup {40}

\* --------------------------------------------------------------------- u32

I32_MIN == -2147483647 - 1

\* a - b modulo 2^32 (u32::wrapping_sub), computed without leaving 32 bits.
wrapping_sub(a, b) ==
    IF (a < 0) = (b < 0) THEN a - b
    ELSE IF a >= 0
         THEN LET r == (a + I32_MIN) - b        \* a - b - 2^31
              IN IF r < 0 THEN r - I32_MIN ELSE r + I32_MIN
         ELSE LET r == (a - I32_MIN) - b        \* a - b + 2^31
              IN IF r >= 0 THEN r + I32_MIN ELSE r - I32_MIN

\* a + 1 modulo 2^32 (the host's fetch_add on the world's tick).
wrapping_inc(a) == IF a = 2147483647 THEN I32_MIN ELSE a + 1

\* a < b as u32.
u32_lt(a, b) == IF (a < 0) = (b < 0) THEN a < b ELSE b < 0

\* a >= b as u32: the comparison of Index::refresh's guard.
u32_ge(a, b) == ~u32_lt(a, b)

u32_min(a, b) == IF u32_lt(a, b) THEN a ELSE b

u32_max(a, b) == IF u32_lt(a, b) THEN b ELSE a

\* bevy's MAX_CHANGE_AGE, u32::MAX - (2 * 518,400,000 - 1), the age at which
\* tick comparisons saturate.
MAX_CHANGE_AGE == -1 - (2 * 518400000 - 1)

\* Tick::is_older_than as Index::refresh calls it: ages are counted back from
\* this_run with wrapping subtraction and saturate at MAX_CHANGE_AGE; the
\* receiver self is older than other when its age is the greater one.
is_older_than(self, other, this_run) ==
    LET ticks_since_self  == u32_min(wrapping_sub(this_run, self), MAX_CHANGE_AGE)
        ticks_since_other == u32_min(wrapping_sub(this_run, other), MAX_CHANGE_AGE)
    IN u32_lt(ticks_since_other, ticks_since_self)

\* ------------------------------------------------------------ IndexInfo

\* IndexInfo::value of the test index over Number: the component itself.
value(c) == c.number

\* ------------------------------------------------------- UniqueMultiMap

\* A function with the empty domain.
EmptyFn == [x \in {} |-> 0]

\* UniqueMultiMap::default: no association.  fwd maps a value to the
\* entities holding it, rev an entity to its value.
EmptyMap == [fwd |-> EmptyFn, rev |-> EmptyFn]

\* UniqueMultiMap::get: the entities associated with val, empty when none.
get(m, val) == IF val \in DOMAIN m.fwd THEN m.fwd[val] ELSE {}

\* An insert that forgets to remove the entity's earlier association.
insert_keeps_old(m, val, e) ==
    [fwd |-> [k \in DOMAIN m.fwd \cup {val} |->
                 IF k = val THEN get(m, val) \cup {e} ELSE m.fwd[k]],
     rev |-> [x \in DOMAIN m.rev \cup {e} |-> IF x = e THEN val ELSE m.rev[x]]]

\* An insert that removes the entity's earlier association after adding the
\* new one, also when both are with the same value.
insert_removes_after(m, val, e) ==
    LET added == [k \in DOMAIN m.fwd \cup {val} |->
                     IF k = val THEN get(m, val) \cup {e} ELSE m.fwd[k]]
        old   == IF e \in DOMAIN m.rev THEN {m.rev[e]} ELSE {}
        after == [k \in DOMAIN added |-> IF k \in old THEN added[k] \ {e} ELSE added[k]]
    IN [fwd |-> [k \in {x \in DOMAIN after : after[x] # {}} |-> after[k]],
        rev |-> [x \in DOMAIN m.rev \cup {e} |-> IF x = e THEN val ELSE m.rev[x]]]

\* UniqueMultiMap::insert: associate e with val, removing first the
\* association e had with another value.
insert(m, val, e) ==
    LET without == [k \in DOMAIN m.fwd |-> IF k = val THEN m.fwd[k] ELSE m.fwd[k] \ {e}]
        kept    == {k \in DOMAIN without : without[k] # {}}
    IN [fwd |-> [k \in kept \cup {val} |->
                    IF k = val THEN get(m, val) \cup {e} ELSE without[k]],
        rev |-> [x \in DOMAIN m.rev \cup {e} |-> IF x = e THEN val ELSE m.rev[x]]]

\* ---------------------------------------------------------------- state

VARIABLES
    components,     \* the host's store: per entity its Number component and
                    \* the tick of its last change, or its absence
    storage,        \* the IndexStorage resource: map and last_refresh_tick
    change_tick,    \* the world's tick: the one the next system run gets
    current_tick,   \* Index::current_tick of the running system
    running,        \* whether a system is running
    last_call,      \* what the last step was and, for a lookup, its result
    visited,        \* entities a scanning refresh has iterated since their last change
    max_current     \* the greatest current_tick a refresh was called with

vars == <<components, storage, change_tick, current_tick, running,
          last_call, visited, max_current>>

\* An entity the host has not spawned yet, and one it has despawned.
NotSpawned == [state |-> "not spawned", number |-> 0, changed |-> 0]

Despawned == [state |-> "despawned", number |-> 0, changed |-> 0]

\* A live entity's Number component with the tick of its last change.
Component(n, tick) == [state |-> "live", number |-> n, changed |-> tick]

\* The entities the components query iterates.
LiveIn(comps) == {e \in Entities : comps[e].state = "live"}

Live == LiveIn(components)

\* IndexStorage::default.
DefaultStorage == [map |-> EmptyMap, last_refresh_tick |-> 0]

\* ------------------------------------------------------- Index::refresh

\* A change test that does not subtract 1: last_refresh_tick itself is older
\* than the component's last change.
is_changed_no_sub(st, c, cur) ==
    is_older_than(st.last_refresh_tick, c.changed, cur)

\* A change test with receiver and argument exchanged: the component's last
\* change is older than the tick before last_refresh_tick.
is_changed_swapped(st, c, cur) ==
    is_older_than(c.changed, wrapping_sub(st.last_refresh_tick, 1), cur)

\* The change test of the loop body: the tick before last_refresh_tick is
\* older than the component's last change.
is_changed(st, c, cur) ==
    is_older_than(wrapping_sub(st.last_refresh_tick, 1), c.changed, cur)

\* The entities the loop inserts.
Changed(st, comps, cur) == {e \in LiveIn(comps) : is_changed(st, comps[e], cur)}

\* The loop: insert each changed entity under the value of its component.
RECURSIVE insert_all(_, _, _)
insert_all(m, todo, comps) ==
    IF todo = {} THEN m
    ELSE LET e == CHOOSE x \in todo : TRUE
         IN insert_all(insert(m, value(comps[e]), e), todo \ {e}, comps)

\* A guard that compares with > instead of >=.
already_updated_strict(st, cur) == u32_lt(cur, st.last_refresh_tick)

\* A guard that orders the two ticks modulo 2^32: it returns only when
\* current_tick is not ahead of last_refresh_tick by less than 2^31.
already_updated_wrapping(st, cur) ==
    LET ahead == wrapping_sub(cur, st.last_refresh_tick)
    IN ahead = 0 \/ u32_ge(ahead, I32_MIN)

\* Whether refresh returns at its guard.
already_updated(st, cur) == u32_ge(st.last_refresh_tick, cur)

\* A refresh whose guard compares with > instead of >=.
refresh_strict_guard(st, comps, cur) ==
    IF u32_lt(cur, st.last_refresh_tick) THEN st
    ELSE [map |-> insert_all(st.map, Changed(st, comps, cur), comps),
          last_refresh_tick |-> cur]

\* A refresh that does not subtract 1 from last_refresh_tick in the change test.
refresh_no_sub(st, comps, cur) ==
    IF already_updated(st, cur) THEN st
    ELSE [map |-> insert_all(st.map,
                     {e \in LiveIn(comps) :
                         is_older_than(st.last_refresh_tick, comps[e].changed, cur)},
                     comps),
          last_refresh_tick |-> cur]

\* A refresh that does not store the tick it ran at.
refresh_keeps_tick(st, comps, cur) ==
    IF already_updated(st, cur) THEN st
    ELSE [map |-> insert_all(st.map, Changed(st, comps, cur), comps),
          last_refresh_tick |-> st.last_refresh_tick]

\* A refresh that also drops the entities that left the query.
refresh_prunes(st, comps, cur) ==
    IF already_updated(st, cur) THEN st
    ELSE LET m    == insert_all(st.map, Changed(st, comps, cur), comps)
             live == LiveIn(comps)
         IN [map |-> [fwd |-> [k \in {x \in DOMAIN m.fwd : m.fwd[x] \cap live # {}} |->
                                  m.fwd[k] \cap live],
                      rev |-> [e \in DOMAIN m.rev \cap live |-> m.rev[e]]],
             last_refresh_tick |-> cur]

\* A refresh that rebuilds the map from the changed entities alone.
refresh_rebuilds(st, comps, cur) ==
    IF already_updated(st, cur) THEN st
    ELSE [map |-> insert_all(EmptyMap, Changed(st, comps, cur), comps),
          last_refresh_tick |-> cur]

\* Index::refresh: the storage it leaves.
refresh(st, comps, cur) ==
    IF already_updated(st, cur) THEN st
    ELSE [map |-> insert_all(st.map, Changed(st, comps, cur), comps),
          last_refresh_tick |-> cur]

\* A lookup that reads the map before refreshing it.
lookup_reads_first(st, comps, cur, val) ==
    [storage |-> refresh(st, comps, cur), set |-> get(st.map, val)]

\* Index::lookup: the storage it leaves and the set it returns.
lookup(st, comps, cur, val) ==
    LET after == refresh(st, comps, cur)
    IN [storage |-> after, set |-> get(after.map, val)]

\* ---------------------------------------------------------------- steps

\* The record of a step that was no call.  For a call: the value asked and
\* the set returned, last_refresh_tick before it (prev), the entities it
\* moved, those insert was called for, the entity-to-value associations
\* before it (was) and the live entities not scanned since their last change
\* when it began (fresh).
NoCall == [op |-> "none", val |-> 0, set |-> {}, prev |-> 0, moved |-> {},
           inserted |-> {}, was |-> EmptyFn, fresh |-> {}]

\* The entities a call at cur calls insert for.
Inserted(st, comps, cur) ==
    IF already_updated(st, cur) THEN {} ELSE Changed(st, comps, cur)

\* The entities a call took out of the set of the value they had.
Moved(before, after) ==
    {e \in DOMAIN before.rev :
        e \notin DOMAIN after.rev \/ before.rev[e] # after.rev[e]}

Init ==
    /\ components = [e \in Entities |-> NotSpawned]
    /\ storage = DefaultStorage
    /\ change_tick = 1
    /\ current_tick = 0
    /\ running = FALSE
    /\ last_call = NoCall
    /\ visited = {}
    /\ max_current = 0

\* get_param: a system with an Index parameter starts; it runs at the
\* world's tick, which the host then advances.
GetParam(last) ==
    /\ change_tick # wrapping_inc(last)
    /\ current_tick' = change_tick
    /\ change_tick' = wrapping_inc(change_tick)
    /\ running' = TRUE
    /\ last_call' = NoCall
    /\ UNCHANGED <<components, storage, visited, max_current>>

\* The host applies a spawn command (add_some_numbers) between systems: the
\* new component is stamped with the world's tick.
Spawn(e, n) ==
    /\ components[e] = NotSpawned
    /\ components' = [components EXCEPT ![e] = Component(n, change_tick)]
    /\ running' = FALSE
    /\ last_call' = NoCall
    /\ UNCHANGED <<storage, change_tick, current_tick, visited, max_current>>

\* The host despawns an entity between systems: it leaves the query.
Despawn(e) ==
    /\ e \in Live
    /\ components' = [components EXCEPT ![e] = Despawned]
    /\ running' = FALSE
    /\ last_call' = NoCall
    /\ visited' = visited \ {e}
    /\ UNCHANGED <<storage, change_tick, current_tick, max_current>>

\* The running system writes a component through Mut (adder_all,
\* adder_some): the component is stamped with the system's tick.
Mutate(e, n) ==
    /\ running
    /\ e \in Live
    /\ components' = [components EXCEPT ![e] = Component(n, current_tick)]
    /\ last_call' = NoCall
    /\ visited' = visited \ {e}
    /\ UNCHANGED <<storage, change_tick, current_tick, running, max_current>>

\* The running system calls Index::lookup.
Lookup(val) ==
    LET r == lookup(storage, components, current_tick, val)
    IN /\ running
       /\ storage' = r.storage
       /\ last_call' = [op |-> "lookup", val |-> val, set |-> r.set,
                        prev |-> storage.last_refresh_tick,
                        moved |-> Moved(storage.map, r.storage.map),
                        inserted |-> Inserted(storage, components, current_tick),
                        was |-> storage.map.rev,
                        fresh |-> Live \ visited]
       /\ visited' = IF already_updated(storage, current_tick)
                     THEN visited ELSE visited \cup Live
       /\ max_current' = u32_max(max_current, current_tick)
       /\ UNCHANGED <<components, change_tick, current_tick, running>>

\* The running system calls Index::refresh.
Refresh ==
    LET after == refresh(storage, components, current_tick)
    IN /\ running
       /\ storage' = after
       /\ last_call' = [op |-> "refresh", val |-> 0, set |-> {},
                        prev |-> storage.last_refresh_tick,
                        moved |-> Moved(storage.map, after.map),
                        inserted |-> Inserted(storage, components, current_tick),
                        was |-> storage.map.rev,
                        fresh |-> Live \ visited]
       /\ visited' = IF already_updated(storage, current_tick)
                     THEN visited ELSE visited \cup Live
       /\ max_current' = u32_max(max_current, current_tick)
       /\ UNCHANGED <<components, change_tick, current_tick, running>>

Next ==
    \/ GetParam(MaxTick)
    \/ \E e \in Entities, n \in Numbers : Spawn(e, n)
    \/ \E e \in Entities : Despawn(e)
    \/ \E e \in Entities, n \in Numbers : Mutate(e, n)
    \/ \E val \in Values : Lookup(val)
    \/ Refresh

Spec == Init /\ [][Next]_vars

\* The world's tick one system run before it wraps: u32::MAX.
WrapStart == wrapping_sub(0, 1)

\* The last tick handed out after the wrap: as many runs as in Spec.
WrapLast == wrapping_sub(MaxTick, 2)

\* The index is first used when the world's tick is about to wrap.
InitWrap ==
    /\ components = [e \in Entities |-> NotSpawned]
    /\ storage = DefaultStorage
    /\ change_tick = WrapStart
    /\ current_tick = 0
    /\ running = FALSE
    /\ last_call = NoCall
    /\ visited = {}
    /\ max_current = 0

NextWrap ==
    \/ GetParam(WrapLast)
    \/ \E e \in Entities, n \in Numbers : Spawn(e, n)
    \/ \E e \in Entities : Despawn(e)
    \/ \E e \in Entities, n \in Numbers : Mutate(e, n)
    \/ \E val \in Values : Lookup(val)
    \/ Refresh

\* The same steps while the world's tick passes from u32::MAX to 0.
SpecWrap == InitWrap /\ [][NextWrap]_vars

\* --------------------------------------------------------------- claims

Calls == {"lookup", "refresh"}

\* e is in the set of val and in the set of no other value.
Associated(m, e, val) ==
    /\ e \in get(m, val)
    /\ \A k \in DOMAIN m.fwd : e \in m.fwd[k] => k = val

\* The tick of e's last change.
Stamp(e) == components[e].changed

\* The last step was a lookup whose refresh passed the guard and scanned.
ScanningLookup ==
    /\ last_call.op = "lookup"
    /\ u32_lt(last_call.prev, current_tick)

\* C1: a lookup returns every live entity whose component was last changed
\* before current_tick and has the value looked up.
C1_LookupComplete ==
    last_call.op = "lookup" =>
        \A e \in Live :
            (u32_lt(Stamp(e), current_tick) /\ value(components[e]) = last_call.val)
                => e \in last_call.set

\* Reached: a lookup in a later step returns an entity under the value it was
\* given in the step of the previous refresh, after that refresh.
C1_Witness ==
    /\ last_call.op = "lookup"
    /\ \E e \in Live \cap last_call.moved :
          /\ Stamp(e) = last_call.prev
          /\ u32_lt(Stamp(e), current_tick)
          /\ value(components[e]) = last_call.val
          /\ e \in last_call.set

\* C2 as stated: when last_refresh_tick is at or after an entity's last
\* change, a lookup does not return the entity for a value other than its
\* component's.
C2_SoundOnceRefreshedThrough ==
    last_call.op = "lookup" =>
        \A e \in Live :
            (u32_ge(storage.last_refresh_tick, Stamp(e)) /\ e \in last_call.set)
                => value(components[e]) = last_call.val

\* C2 amended: when a refresh that passed its guard has scanned an entity
\* after its last change, a lookup returns the entity for the value of its
\* component and for no other value.
C2_SoundOnceScanned ==
    last_call.op = "lookup" =>
        \A e \in Live \cap visited :
            e \in last_call.set <=> value(components[e]) = last_call.val

\* Reached: every entity was moved to another value, and a lookup of a later
\* step no longer returns any of them for the value asked.
C2_Witness ==
    /\ last_call.op = "lookup"
    /\ Cardinality(Live) >= 2
    /\ Live \subseteq last_call.moved
    /\ Live \subseteq visited
    /\ last_call.val \in Numbers
    /\ last_call.set = {}

\* C3 as stated: every lookup returns exactly the live entities whose
\* component has the value looked up, whatever was changed before it in the
\* same step.
C3_EveryLookupReflectsAll ==
    last_call.op = "lookup" =>
        \A e \in Live :
            e \in last_call.set <=> value(components[e]) = last_call.val

\* C3 amended: a lookup whose refresh passes the guard (the first lookup or
\* refresh of its step) returns exactly the live entities whose component has
\* the value looked up, changes made earlier in the same step included.
C3_ScanningLookupReflectsAll ==
    ScanningLookup =>
        \A e \in Live :
            e \in last_call.set <=> value(components[e]) = last_call.val

\* Reached: the first lookup of a step returns an entity under the value the
\* same step gave it before the lookup.
C3_Witness ==
    /\ ScanningLookup
    /\ \E e \in Live \cap last_call.moved :
          /\ Stamp(e) = current_tick
          /\ e \in last_call.set

\* C4: a component changed in the step of the last refresh (its stamp is the
\* watermark that refresh set) is applied by the next lookup of a later
\* step: the entity is then in the set of its new value only, and the lookup
\* returns it exactly when that value is asked.
C4_SameStepMutationApplied ==
    ScanningLookup =>
        \A e \in Live :
            Stamp(e) = last_call.prev =>
                /\ Associated(storage.map, e, value(components[e]))
                /\ e \in last_call.set <=> value(components[e]) = last_call.val

\* Reached: an entity changed after the refresh of step T, in step T, has
\* been moved by the lookup of a later step and is not returned for the old
\* value.
C4_Witness ==
    /\ ScanningLookup
    /\ last_call.prev # 0
    /\ \E e \in Live \cap last_call.moved :
          /\ Stamp(e) = last_call.prev
          /\ value(components[e]) # last_call.val
          /\ e \notin last_call.set

\* C5 as stated: every live entity last changed at or before
\* last_refresh_tick is associated with exactly the value of its component.
C5_AccurateThroughWatermark ==
    \A e \in Live :
        u32_ge(storage.last_refresh_tick, Stamp(e))
            => Associated(storage.map, e, value(components[e]))

\* C5 amended: every live entity last changed before last_refresh_tick is
\* associated with exactly the value of its component.
C5_AccurateBeforeWatermark ==
    \A e \in Live :
        u32_lt(Stamp(e), storage.last_refresh_tick)
            => Associated(storage.map, e, value(components[e]))

\* Reached: one entity changed before the watermark is indexed under its
\* value while another, changed at the watermark, is still indexed under its
\* old value.
C5_Witness ==
    /\ \E e \in Live :
          /\ u32_lt(Stamp(e), storage.last_refresh_tick)
          /\ Associated(storage.map, e, value(components[e]))
    /\ \E e \in Live :
          /\ Stamp(e) = storage.last_refresh_tick
          /\ e \in DOMAIN storage.map.rev
          /\ ~Associated(storage.map, e, value(components[e]))

\* C6: each entity is in the set of at most one value.
C6_Unique ==
    \A e \in Entities :
        Cardinality({k \in DOMAIN storage.map.fwd : e \in storage.map.fwd[k]}) <= 1

\* Reached: a call has moved an entity from one value's set to another's.
C6_Witness ==
    /\ last_call.op \in Calls
    /\ \E e \in last_call.moved : \E k \in Numbers : e \in get(storage.map, k)

\* C7: a refresh called at a current_tick a refresh was already called at
\* leaves map and last_refresh_tick as they are.
C7_IdempotentRefresh ==
    [][(last_call'.op \in Calls /\ max_current = current_tick)
          => storage' = storage]_vars

\* Reached: a second lookup of a step has run while a change made between
\* the two waits in the components.
C7_Witness ==
    /\ last_call.op = "lookup"
    /\ last_call.prev = current_tick
    /\ max_current = current_tick
    /\ \E e \in Live :
          /\ Stamp(e) = current_tick
          /\ e \in DOMAIN storage.map.rev
          /\ ~Associated(storage.map, e, value(components[e]))

\* C8: last_refresh_tick is the greatest current_tick a refresh was called
\* with, 0 when none was.
C8_WatermarkIsMax == storage.last_refresh_tick = max_current

\* Reached: a refresh has advanced a watermark that an earlier refresh set.
C8_Witness ==
    /\ last_call.op \in Calls
    /\ last_call.prev # 0
    /\ u32_lt(last_call.prev, storage.last_refresh_tick)
    /\ storage.last_refresh_tick = current_tick

\* C9: a lookup of a value no entity is associated with returns the empty
\* set, and every lookup returns a set of entities.
C9_LookupTotal ==
    last_call.op = "lookup" =>
        /\ last_call.set \subseteq Entities
        /\ (\A e \in DOMAIN storage.map.rev : storage.map.rev[e] # last_call.val)
              => last_call.set = {}

\* Reached: a lookup returns the empty set for a value whose entities it has
\* just moved away.
C9_Witness ==
    /\ last_call.op = "lookup"
    /\ last_call.val \in Numbers
    /\ last_call.moved # {}
    /\ \A e \in DOMAIN storage.map.rev : storage.map.rev[e] # last_call.val
    /\ last_call.set = {}

\* C10: a refresh called while last_refresh_tick >= current_tick changes
\* neither the map nor last_refresh_tick and moves no entity.
C10_GuardIsNoOp ==
    [][(last_call'.op \in Calls /\ u32_ge(storage.last_refresh_tick, current_tick))
          => (storage' = storage /\ last_call'.moved = {})]_vars

\* Reached: a refresh has returned at its guard although a component
\* changed since the last scan.
C10_Witness ==
    /\ last_call.op = "refresh"
    /\ u32_ge(last_call.prev, current_tick)
    /\ last_call.prev = storage.last_refresh_tick
    /\ Live \ visited # {}

\* The last step was a lookup or refresh that passed the guard and scanned.
ScanningCall ==
    /\ last_call.op \in Calls
    /\ u32_lt(last_call.prev, current_tick)

\* C11: a refresh that passes the guard calls insert for every live entity
\* whose component was last changed at or after the last_refresh_tick it
\* found, and leaves it associated with exactly the value of its component.
C11_ReinsertsChangedSinceWatermark ==
    ScanningCall =>
        \A e \in Live :
            u32_ge(Stamp(e), last_call.prev) =>
                /\ e \in last_call.inserted
                /\ Associated(storage.map, e, value(components[e]))

\* Reached: a refresh that found a watermark set by an earlier refresh has
\* reinserted an entity changed exactly at that watermark and one changed
\* after it.
C11_Witness ==
    /\ ScanningCall
    /\ last_call.prev # 0
    /\ \E e \in Live \cap last_call.inserted : Stamp(e) = last_call.prev
    /\ \E e \in Live \cap last_call.inserted : u32_lt(last_call.prev, Stamp(e))

\* The association e has in the entity-to-value function rev, if any.
AssocOf(rev, e) == IF e \in DOMAIN rev THEN {rev[e]} ELSE {}

\* C12 as stated: in a refresh that passes the guard, insert is called for
\* an entity exactly when its stamp is not older than the tick before the
\* last_refresh_tick the refresh found.
C12_InsertIffNotOlderThanPrevMinusOne ==
    ScanningCall =>
        \A e \in Live :
            e \in last_call.inserted <=>
                ~is_older_than(Stamp(e), wrapping_sub(last_call.prev, 1), current_tick)

\* C12 amended: in a refresh that passes the guard, insert is called for an
\* entity exactly when its stamp is at or after the last_refresh_tick the
\* refresh found (newer than the tick before it); the other entities keep
\* the association they had.
C12_InsertIffAtOrAfterWatermark ==
    ScanningCall =>
        \A e \in Live :
            /\ e \in last_call.inserted <=> u32_ge(Stamp(e), last_call.prev)
            /\ e \notin last_call.inserted =>
                  /\ AssocOf(storage.map.rev, e) = AssocOf(last_call.was, e)
                  /\ \A k \in DOMAIN storage.map.fwd :
                        e \in storage.map.fwd[k] => AssocOf(last_call.was, e) = {k}

\* Reached: a refresh has left alone an entity whose stamp is the tick
\* before the watermark it found, and reinserted one stamped at the watermark.
C12_Witness ==
    /\ ScanningCall
    /\ \E e \in Live \ last_call.inserted :
          /\ Stamp(e) = wrapping_sub(last_call.prev, 1)
          /\ e \in DOMAIN storage.map.rev
    /\ \E e \in Live \cap last_call.inserted : Stamp(e) = last_call.prev

\* C13 as stated: a refresh that passes the guard calls insert for every
\* live entity that has no association yet and leaves it associated.
C13_NeverIndexedIsInserted ==
    ScanningCall =>
        \A e \in Live \ DOMAIN last_call.was :
            /\ e \in last_call.inserted
            /\ e \in DOMAIN storage.map.rev

\* C14: an insert of refresh for an entity associated with another value
\* leaves the entity in the set of its new value and in no other, and leaves
\* every entity it is not called for with the association it had; every
\* insert leaves its entity associated.
C14_InsertSupersedes ==
    ScanningCall =>
        /\ \A e \in last_call.inserted :
              Associated(storage.map, e, value(components[e]))
        /\ \A e \in last_call.moved :
              /\ last_call.was[e] # value(components[e])
              /\ e \notin get(storage.map, last_call.was[e])
        /\ \A x \in DOMAIN last_call.was \ last_call.inserted :
              Associated(storage.map, x, last_call.was[x])

\* Reached: a refresh has moved one entity away from a value that another
\* entity, not reinserted, still has.
C14_Witness ==
    /\ ScanningCall
    /\ \E e \in last_call.moved :
          \E x \in DOMAIN last_call.was \ last_call.inserted :
              /\ last_call.was[x] = last_call.was[e]
              /\ x \in get(storage.map, last_call.was[e])
              /\ e \in get(storage.map, value(components[e]))

\* C15: when every entity a refresh reinserts already had the value of its
\* component, the map after the refresh is the map before it: each value's
\* set holds exactly the entities associated with it before.
C15_ReinsertSameValueKeepsMap ==
    (/\ ScanningCall
     /\ \A e \in last_call.inserted :
           AssocOf(last_call.was, e) = {value(components[e])})
    => /\ storage.map.rev = last_call.was
       /\ \A k \in Values \cup DOMAIN storage.map.fwd :
             get(storage.map, k) = {e \in DOMAIN last_call.was : last_call.was[e] = k}

\* Reached: a refresh has reinserted an entity whose component was written
\* since the last scan with the value it already had.
C15_Witness ==
    /\ ScanningCall
    /\ \A e \in last_call.inserted :
          AssocOf(last_call.was, e) = {value(components[e])}
    /\ \E e \in last_call.inserted \cap last_call.fresh :
          e \in get(storage.map, value(components[e]))

\* C16: no step removes an association: an entity associated with a value
\* stays in the set of some value, also after it left the host store.
C16_AssociationNeverRemoved ==
    [][\A e \in DOMAIN storage.map.rev :
          /\ e \in DOMAIN storage'.map.rev
          /\ \E k \in DOMAIN storage'.map.fwd : e \in storage'.map.fwd[k]]_vars

\* Reached: a lookup whose refresh scanned returns a despawned entity.
C16_Witness ==
    /\ ScanningLookup
    /\ \E e \in last_call.set : components[e] = Despawned

\* The last step was a lookup at a current_tick that has wrapped: it is ahead
\* of the last_refresh_tick the lookup found modulo 2^32, and numerically
\* below it.
LookupAfterWrap ==
    /\ last_call.op = "lookup"
    /\ u32_lt(current_tick, last_call.prev)
    /\ u32_lt(wrapping_sub(current_tick, last_call.prev), I32_MIN)

\* C17 as stated: a lookup at a current_tick that has wrapped past
\* last_refresh_tick still scans: it sets last_refresh_tick to current_tick
\* and leaves every live entity changed since the last_refresh_tick it found
\* associated with exactly the value of its component.
C17_LookupScansAfterWrap ==
    LookupAfterWrap =>
        /\ storage.last_refresh_tick = current_tick
        /\ \A e \in last_call.fresh :
              Associated(storage.map, e, value(components[e]))

\* C18: no step lowers last_refresh_tick, and after every step it is the
\* greatest current_tick a refresh was called with (0 when none was), also
\* when a refresh is called at a current_tick below it.
C18_WatermarkMonotoneMax ==
    [][/\ u32_ge(storage'.last_refresh_tick, storage.last_refresh_tick)
       /\ storage'.last_refresh_tick = max_current'
       /\ last_call'.op \in Calls =>
             storage'.last_refresh_tick =
                 u32_max(storage.last_refresh_tick, current_tick)]_vars

\* Reached: a call at a current_tick below last_refresh_tick has left
\* last_refresh_tick where it was.
C18_Witness ==
    /\ last_call.op \in Calls
    /\ last_call.prev # 0
    /\ u32_lt(current_tick, last_call.prev)
    /\ storage.last_refresh_tick = last_call.prev
    /\ max_current = last_call.prev

\* C19: a refresh that passes the guard at T2 after a refresh at T1 < T2,
\* with no component written or spawned in between, leaves every value's
\* set as it was and only advances last_refresh_tick to T2, whatever it
\* reinserts.
C19_QuietRefreshKeepsMap ==
    (/\ ScanningCall
     /\ last_call.prev # 0
     /\ last_call.fresh = {})
    => /\ storage.map.rev = last_call.was
       /\ \A k \in Values \cup DOMAIN storage.map.fwd :
             get(storage.map, k) = {e \in DOMAIN last_call.was : last_call.was[e] = k}
       /\ storage.last_refresh_tick = current_tick

\* Reached: with nothing written since the refresh at T1, the refresh at T2
\* has reinserted an entity stamped T1 and left alone one stamped before T1.
C19_Witness ==
    /\ ScanningCall
    /\ last_call.prev # 0
    /\ last_call.fresh = {}
    /\ \E e \in Live \cap last_call.inserted : Stamp(e) = last_call.prev
    /\ \E e \in Live \ last_call.inserted : e \in DOMAIN storage.map.rev

====
